---- MODULE Spec2Model ----
(***************************************************************************)
(* Export pipeline of MYOTextbook: POST /api/projects/:id/export and       *)
(* exportProjectTo (src/unnamed/part_001).  One export job over a snapshot  *)
(* of a project's items.  Markdown files are modelled as elements          *)
(* [kind, item]; the content of a fetched page is "content" or the         *)
(* bot-protection "marker" placeholder.                                    *)
(***************************************************************************)
EXTENDS Integers, Sequences, FiniteSets, TLC

\* ---- bounds of the model ----
MaxItems == 3
MaxWidthOpt == 101
MaxJobs == 2
MaxSubs == 1
MaxReports == 2
MaxRows == 2
MaxWebItems == 2
MaxRequests == 2
MaxCalls == 4
MaxClock == 2
MaxExports == 2
MaxSuffix == 2
MaxEdits == 2

\* ---- program constants ----
NumUserAgents == 4
FixedSteps == 4
DefaultWidthPct == 80
MinWidthPct == 10
MaxWidthPct == 100

Formats == {"pdf", "epub", "markdown"}
ItemTypes == {"heading", "titlepage", "url", "wikipedia", "image", "pdf", "docx"}
EngineNames == <<"tectonic", "xelatex">>
MergerTools == <<"qpdf", "pdfunite", "gs">>

\* Rows of the items table as the export reads them: type, cached_content
\* (absent or page content), whether source_url is a Wikipedia article URL,
\* and whether local_path is set.
ItemVariants ==
  { it \in [type : ItemTypes, cached : {"none", "content"},
            wiki : BOOLEAN, local : BOOLEAN] :
      /\ (it.cached # "none") => (it.type = "url")
      /\ it.wiki = (it.type = "wikipedia")
      /\ (it.type \in {"pdf", "docx"}) => it.local
      /\ it.local => (it.type \in {"pdf", "docx", "image"}) }

ItemLists == UNION { [1..n -> ItemVariants] : n \in 0..MaxItems }

\* Every row the item routes can store: a url item may hold any cached text
\* (the page content, or the bot-protection placeholder the cache route got
\* from convertUrlToMdSmart), and the source_url of a url or wikipedia item
\* may or may not be a Wikipedia article URL.
WebItemVariants ==
  { it \in [type : ItemTypes, cached : {"none", "content", "marker"},
            wiki : BOOLEAN, local : BOOLEAN] :
      /\ (it.cached # "none") => (it.type = "url")
      /\ it.wiki => (it.type \in {"url", "wikipedia"})
      /\ (it.type \in {"pdf", "docx"}) => it.local
      /\ it.local => (it.type \in {"pdf", "docx", "image"}) }

WebItemLists == UNION { [1..n -> WebItemVariants] : n \in 0..MaxWebItems }

\* An image item as the image branch reads it: options_json.widthPct (a number,
\* or absent), options_json.caption (a string, or absent) and the item title.
NoValue == "absent"
CaptionOpts == {NoValue, "", "Figure"}
TitleOpts == {"", "Photo"}
ImageInputs ==
  { o \in [hasWidth : BOOLEAN, widthPct : 0..MaxWidthOpt,
           caption : CaptionOpts, title : TitleOpts] :
      ~o.hasWidth => o.widthPct = 0 }

VARIABLES
  items, format,                \* snapshot taken by the export route
  pc, idx,                      \* position in exportProjectTo, loop index
  step, progress,               \* report counter, PROGRESS entry of the job
  reports,                      \* history: the messages reported, in order
  engines,                      \* detected PDF engines, in priority order
  inputs, pdfSequence,          \* markdown accumulator, ordered PDF components
  finalPdfSequence, ri,         \* rendered components, render loop index
  isFirstItem, lastWasHeading,
  failedPages, wikipediaAttribution, nonWikiAttribution,
  workdir, outFile,
  hist, lastRender, abortedAt,  \* history: per-item outcome, last batch render
  imgIn, imgOut,                \* image directive: options in, directive out
  merger, installed,            \* result of findPdfMerger() in the merge stage, tools it saw
  PROGRESS, jobs, subs,         \* progress map, export jobs, progress streams
  store, jobItems, expo,        \* items table, items array of an export, its loop
  access_requests, users,       \* access_requests table, usernames of the users table
  reply, approvedUsers,         \* last response sent; history: accounts made by approve
  includeToc, renders,          \* options.includeToc; history: arguments of the PDF renders
  scrubbed,                     \* history: items whose fragment went through scrubMarkdownForPdf
  clock, running, tmpDirs       \* Date.now(); paths of the running exports; TMP_DIR entries

vars == <<items, format, pc, idx, step, reports, progress, engines, inputs, pdfSequence,
          finalPdfSequence, ri, isFirstItem, lastWasHeading, failedPages,
          wikipediaAttribution, nonWikiAttribution, workdir, outFile, hist,
          lastRender, abortedAt, imgIn, imgOut, merger, installed,
          PROGRESS, jobs, subs, store, jobItems, expo,
          access_requests, users, reply, approvedUsers, includeToc, renders,
          scrubbed, clock, running, tmpDirs>>

imgVars == <<imgIn, imgOut>>
jobVars == <<PROGRESS, jobs, subs>>
snapVars == <<store, jobItems, expo>>
accVars == <<access_requests, users, reply, approvedUsers>>
tocVars == <<includeToc, renders>>
pathVars == <<clock, running, tmpDirs>>
restVars == <<jobVars, snapVars, accVars, pathVars>>
mergeVars == <<merger, installed>>
svgVars == <<scrubbed>>
sideVars == <<mergeVars, restVars, tocVars, svgVars>>
loopVars == <<isFirstItem, lastWasHeading>>
attrVars == <<wikipediaAttribution, nonWikiAttribution>>
pdfVars == <<pdfSequence, finalPdfSequence, ri, lastRender>>

\* the file at outPath: not written, or written with these parts in order
NoFile == [written |-> FALSE, parts |-> <<>>]
File(parts) == [written |-> TRUE, parts |-> parts]
\* PROGRESS[jobId].failedPages: not set, null, or a list
Unset == [kind |-> "unset", list |-> <<>>]
NoRender == [tried |-> <<>>, ok |-> TRUE, err |-> "none"]
NoImage == [width |-> 0, alt |-> "", heading |-> FALSE]
\* findPdfMerger() was not called
NotLooked == "unset"
\* ---- output paths ----
ExportIds == 1..MaxExports
ProjectIds == 1..2
\* project names, as character sequences: "a b", "a_b", "a/b", "ab", ""
ProjectNames == {<<"a", " ", "b">>, <<"a", "_", "b">>, <<"a", "/", "b">>,
                 <<"a", "b">>, <<>>}
NoPath == [name |-> <<>>, time |-> 0, suffix |-> "none"]
NoDir == [project |-> 0, rand |-> 0]
Idle == [pc |-> "free", format |-> "pdf", outPath |-> NoPath, workdir |-> NoDir]
\* no export is running, TMP_DIR is empty
NoPaths ==
  /\ clock = 0
  /\ running = [j \in ExportIds |-> Idle]
  /\ tmpDirs = {}

\* no PDF render was started; includeToc at its default
NoRenders == includeToc = TRUE /\ renders = <<>> /\ scrubbed = <<>>

\* metaYaml(): the metadata file written for the export always holds toc: true
metaYaml == [toc |-> TRUE]
\* an invocation without --metadata-file
NoMeta == [toc |-> FALSE]
\* buildPandocArgs(): --metadata-file meta, and --toc iff includeToc is passed true
buildPandocArgs(meta, tocFlag) == [metadataFile |-> meta, toc |-> tocFlag]
\* titleArgs: --pdf-engine, geometry, -o, the title markdown; nothing else
titleArgs == [metadataFile |-> NoMeta, toc |-> FALSE]
\* batchCounter: markdown batches whose render was started so far
batchCounter == Cardinality({k \in 1..Len(renders) : renders[k].kind = "batch"})
\* const includeToC = batchCounter === 0 && includeToc
BatchArgs == buildPandocArgs(metaYaml, batchCounter = 0 /\ includeToc)

\* ---- progress map ----
JobIds == 1..MaxJobs
SubIds == 1..MaxSubs

\* {}: what PROGRESS.get(id) || {} gives for an id never set
NoEntry == [f \in {} |-> FALSE]

SetProgressShared(P, id, patch) ==
  [j \in DOMAIN P |->
     [f \in DOMAIN P[j] \cup DOMAIN patch |->
        IF f \in DOMAIN patch THEN patch[f] ELSE P[j][f]]]
\* setProgress(id, patch): next = { ...cur, ...patch }; PROGRESS.set(id, next)
SetProgress(P, id, patch) ==
  [P EXCEPT ![id] = [f \in DOMAIN P[id] \cup DOMAIN patch |->
                       IF f \in DOMAIN patch THEN patch[f] ELSE P[id][f]]]

\* st.done || st.error of an entry
IsDone(st) == "done" \in DOMAIN st /\ st.done
HasError(st) == "error" \in DOMAIN st

\* no export was submitted, no progress stream is open
NoJobs ==
  /\ PROGRESS = [j \in JobIds |-> NoEntry]
  /\ jobs = [j \in JobIds |-> [pc |-> "free", step |-> 0]]
  /\ subs = [u \in SubIds |-> [open |-> FALSE, id |-> 1, sent |-> 0,
                                last |-> NoEntry]]

\* ---- items table ----

\* the items table is empty and no export holds an items array
NoStore ==
  /\ store = [rows |-> <<>>, nextId |-> 1, edits |-> 0]
  /\ jobItems = <<>>
  /\ expo = [pc |-> "idle", k |-> 0, submitted |-> <<>>, processed |-> <<>>,
             during |-> 0]

\* ---- access requests ----
ReqIds == 1..MaxRequests
Emails == {"ann@x.org", "bob@x.org"}

NoRequest == [status |-> "none", email |-> "ann@x.org"]
NoReply == [n |-> 0, op |-> "none", id |-> 0, error |-> "none"]

\* both tables are empty, no call was made
NoAccess ==
  /\ access_requests = [r \in ReqIds |-> NoRequest]
  /\ users = {}
  /\ reply = NoReply
  /\ approvedUsers = {}

\* ---- helpers ----
El(k, i) == [kind |-> k, item |-> i]

PushInputFront(seq, e) == <<e>> \o seq
\* inputs.push(mdFile(...))
PushInput(seq, e) == Append(seq, e)

TotalStepsItemsOnly == Len(items) + (IF format = "pdf" THEN 1 ELSE 0)
\* totalSteps = 4 + items.length + (format === "pdf" ? 1 : 0)
TotalSteps == FixedSteps + Len(items) + (IF format = "pdf" THEN 1 ELSE 0)

Min(a, b) == IF a < b THEN a ELSE b
Max(a, b) == IF a > b THEN a ELSE b

ReportedUnclamped(n) == [progress EXCEPT !.step = step + n,
                                          !.total = TotalSteps,
                                          !.done = FALSE]
\* setProgress(jobId, {...progress, done: false}) after n calls of
\* report = (message) => progressCb({ step: Math.min(++step, totalSteps), ... })
Reported(n) == [progress EXCEPT !.step = Min(step + n, TotalSteps),
                                !.total = TotalSteps,
                                !.done = FALSE]

\* items.find(it => it.type === "titlepage"): index of the first one, 0 if none
TitlePageItem ==
  IF \E i \in 1..Len(items) : items[i].type = "titlepage"
  THEN CHOOSE i \in 1..Len(items) :
         /\ items[i].type = "titlepage"
         /\ \A j \in 1..(i - 1) : items[j].type # "titlepage"
  ELSE 0

ThrownNotDone(msg) == [step |-> 1, total |-> 1, done |-> FALSE, error |-> msg,
                       output |-> progress.output,
                       failedPages |-> progress.failedPages]
\* catch (err) of the background task: the job ends in error
\* a reported message: its fixed text and the item whose title it ends with
Msg(t, i) == [text |-> t, item |-> i]
Thrown(msg) == [step |-> 1, total |-> 1, done |-> TRUE, error |-> msg,
                output |-> progress.output, failedPages |-> progress.failedPages]

\* report(m) for every m of msgs, then an exception ends the job
Raise(msgs, err) ==
  /\ reports' = reports \o msgs
  /\ step' = step + Len(msgs)
  /\ progress' = Thrown(err)

\* report(m) for every m of msgs
Report(msgs) ==
  /\ reports' = reports \o msgs
  /\ step' = step + Len(msgs)
  /\ progress' = Reported(Len(msgs))

\* the state after the export route took its snapshot: one of these item lists
Submitted(lists, tocOpts) ==
  /\ items \in lists
  /\ includeToc \in tocOpts
  /\ renders = <<>>
  /\ scrubbed = <<>>
  /\ NoPaths
  /\ format \in Formats
  /\ pc = "start"
  /\ idx = 0
  /\ step = 0
  /\ reports = <<>>
  /\ progress = [step |-> 0, total |-> 1, done |-> FALSE, error |-> "none",
                 output |-> "none", failedPages |-> Unset]
  /\ engines = <<>>
  /\ inputs = <<>>
  /\ pdfSequence = <<>>
  /\ finalPdfSequence = <<>>
  /\ ri = 0
  /\ isFirstItem = TRUE
  /\ lastWasHeading = FALSE
  /\ failedPages = <<>>
  /\ wikipediaAttribution = <<>>
  /\ nonWikiAttribution = <<>>
  /\ workdir = FALSE
  /\ outFile = NoFile
  /\ hist = <<>>
  /\ lastRender = NoRender
  /\ abortedAt = 0
  /\ imgIn = [hasWidth |-> FALSE, widthPct |-> 0, caption |-> NoValue,
              title |-> ""]
  /\ imgOut = NoImage
  /\ merger = NotLooked
  /\ installed = {}
  /\ NoJobs
  /\ NoStore
  /\ NoAccess

\* const { showPageNumbers = true, includeToc = true } = options
Init == Submitted(ItemLists, {TRUE})

\* report("Preparing workspace"), mkdtempSync, engine detection
Prepare ==
  /\ pc = "start"
  /\ workdir' = TRUE
  /\ step' = step + 1
  /\ reports' = Append(reports, Msg("Preparing workspace", 0))
  /\ \E tect \in BOOLEAN, xel \in BOOLEAN :
       LET found == (IF tect THEN <<"tectonic">> ELSE <<>>) \o
                    (IF xel THEN <<"xelatex">> ELSE <<>>)
       IN IF format = "pdf"
          THEN /\ engines' = found
               /\ IF found = <<>>
                  THEN /\ pc' = "done"
                       /\ progress' = Thrown("No PDF engine detected")
                  ELSE /\ pc' = "title"
                       /\ progress' = Reported(1)
          ELSE /\ tect /\ xel
               /\ engines' = <<>>
               /\ pc' = "title"
               /\ progress' = Reported(1)
  /\ UNCHANGED <<items, format, idx, inputs, pdfVars, loopVars, failedPages,
                 attrVars, outFile, hist, abortedAt, imgVars, sideVars>>

\* title page rendered on its own with the first engine; a failure is only logged
TitlePage ==
  /\ pc = "title"
  /\ pc' = "loop"
  /\ idx' = 1
  /\ IF TitlePageItem # 0 /\ format = "pdf"
     THEN \E ok \in BOOLEAN :
            /\ renders' = Append(renders, [kind |-> "title", args |-> titleArgs,
                                           ok |-> ok])
            /\ IF ok
               THEN /\ pdfSequence' = Append(pdfSequence,
                           [type |-> "pdf", desc |-> "Title page",
                            item |-> TitlePageItem, inputs |-> <<>>])
                    /\ Report(<<Msg("Generating Title Page", TitlePageItem),
                                Msg("Title page generated", 0),
                                Msg("Collecting items", 0)>>)
               ELSE /\ pdfSequence' = pdfSequence
                    /\ Report(<<Msg("Generating Title Page", TitlePageItem),
                                Msg("Collecting items", 0)>>)
     ELSE /\ pdfSequence' = pdfSequence
          /\ renders' = renders
          /\ Report(<<Msg("Collecting items", 0)>>)
  /\ UNCHANGED <<items, format, engines, inputs, finalPdfSequence, ri, lastRender,
                 loopVars, failedPages, attrVars, workdir, outFile, hist,
                 abortedAt, imgVars, mergeVars, restVars, includeToc, svgVars>>

\* ---- item loop ----

NeedsPageBreakIgnoringHeading(first, lastH) == ~first
\* if (!isFirstItem && !lastWasHeading) push a page break
NeedsPageBreak(first, lastH) == ~first /\ ~lastH

\* the accumulator after the page-break test made before item i
WithBreak(i) ==
  IF NeedsPageBreak(isFirstItem, lastWasHeading)
  THEN PushInput(inputs, El("pagebreak", i))
  ELSE inputs

\* one request of fetchHtml: a clean 2xx body, a body holding a challenge
\* marker (whatever the status), or a network error / non-2xx status
AttemptOutcomes == {"ok", "marker", "err"}
Attempts == [1..NumUserAgents -> AttemptOutcomes]

\* what the last request made by fetchHtml returned
LastResponse(att) ==
  IF \E i \in 1..NumUserAgents : att[i] = "ok" THEN "ok" ELSE att[NumUserAgents]

RECURSIVE FetchFrom(_, _, _)
FetchFrom(att, i, lastError) ==
  IF i > NumUserAgents
  THEN [ok |-> FALSE, msg |-> lastError]
  ELSE CASE att[i] = "ok" -> [ok |-> TRUE, msg |-> "none"]
         [] att[i] = "marker" ->
              IF i < NumUserAgents
              THEN FetchFrom(att, i + 1, lastError)
              ELSE FetchFrom(att, i + 1, "Cloudflare protection")
         [] OTHER -> FetchFrom(att, i + 1, "HTTP error")

FetchHtmlGeneric(att) ==
  LET r == FetchFrom(att, 1, "none")
  IN IF r.ok THEN r ELSE [ok |-> FALSE, msg |-> "HTTP error"]
\* fetchHtml(url): the message of the final error wraps lastError.message
FetchHtml(att) == FetchFrom(att, 1, "none")

\* err.message.includes("browser verification") || includes("Cloudflare")
IsBotMessage(msg) == msg = "Cloudflare protection"

\* convertUrlToMdSmart: content written to outPath, whether a Wikipedia
\* attribution was pushed, and the message of the error thrown ("none" if none)
ConvertUrlToMdSmart(it, att, restOk, convOk) ==
  IF it.wiki
  THEN IF restOk /\ convOk
       THEN [thrown |-> "none", content |-> "content", wikiAttr |-> TRUE]
       ELSE [thrown |-> IF restOk THEN "pandoc" ELSE "Wikipedia REST failed",
             content |-> "none", wikiAttr |-> FALSE]
  ELSE LET r == FetchHtml(att)
       IN IF r.ok
          THEN IF convOk
               THEN [thrown |-> "none", content |-> "content", wikiAttr |-> FALSE]
               ELSE [thrown |-> "pandoc", content |-> "none", wikiAttr |-> FALSE]
          ELSE IF IsBotMessage(r.msg)
               THEN [thrown |-> "none", content |-> "marker", wikiAttr |-> FALSE]
               ELSE [thrown |-> r.msg, content |-> "none", wikiAttr |-> FALSE]

\* content.includes("This website uses bot protection") || ...
IsBotPlaceholder(content) == content = "marker"

BotReason == "Site uses bot protection (Cloudflare). Cannot be automatically fetched."

Hist(r, f) == [res |-> r, fin |-> f]

\* if (it.type === "titlepage") { isFirstItem = false; lastWasHeading = false; continue; }
ItemTitlepage ==
  /\ pc = "loop" /\ idx <= Len(items)
  /\ items[idx].type = "titlepage"
  /\ isFirstItem' = FALSE
  /\ lastWasHeading' = FALSE
  /\ idx' = idx + 1
  /\ hist' = Append(hist, Hist("titlepage", "none"))
  /\ UNCHANGED <<items, format, pc, step, reports, progress, engines, inputs, pdfVars,
                 failedPages, attrVars, workdir, outFile, abortedAt, imgVars, sideVars>>

ItemHeading ==
  /\ pc = "loop" /\ idx <= Len(items)
  /\ items[idx].type = "heading"
  /\ inputs' = PushInput(WithBreak(idx), El("heading", idx))
  /\ Report(<<Msg("Added Heading", idx)>>)
  /\ isFirstItem' = FALSE
  /\ lastWasHeading' = TRUE
  /\ idx' = idx + 1
  /\ hist' = Append(hist, Hist("emitted", "none"))
  /\ UNCHANGED <<items, format, pc, engines, pdfVars, failedPages, attrVars,
                 workdir, outFile, abortedAt, imgVars, sideVars>>

\* const res = await scrubMarkdownForPdf(titled, workdir): the fragment of item
\* i (0: the attribution page) goes through the SVG resolver
Scrub(i) == Append(scrubbed, i)

\* the job is aborted by an exception thrown while item idx is processed
Abort(msg) ==
  /\ pc' = "done"
  /\ progress' = Thrown(msg)
  /\ abortedAt' = idx
  /\ hist' = Append(hist, Hist("threw", "none"))
  /\ UNCHANGED <<idx, step, reports, isFirstItem, failedPages, attrVars, pdfSequence>>

\* the item is done: the messages msgs were reported, outcome r is recorded
Continue(msgs, r, f) ==
  /\ pc' = pc
  /\ idx' = idx + 1
  /\ Report(msgs)
  /\ isFirstItem' = FALSE
  /\ abortedAt' = abortedAt
  /\ hist' = Append(hist, Hist(r, f))

NativePdfNoFlush(seq, acc, i) ==
  Append(seq, [type |-> "pdf", desc |-> "item", item |-> i, inputs |-> <<>>])
NativePdfBeforeBatch(seq, acc, i) ==
  LET withPdf == Append(seq, [type |-> "pdf", desc |-> "item", item |-> i,
                              inputs |-> <<>>])
  IN IF Len(acc) > 0
     THEN Append(withPdf, [type |-> "markdown", desc |-> "batch", item |-> 0,
                           inputs |-> acc])
     ELSE withPdf
\* pdfSequence after a native PDF: the accumulated markdown is flushed as a
\* batch, then the PDF itself is pushed
NativePdf(seq, acc, i) ==
  LET flushed == IF Len(acc) > 0
                 THEN Append(seq, [type |-> "markdown", desc |-> "batch",
                                   item |-> 0, inputs |-> acc])
                 ELSE seq
  IN Append(flushed, [type |-> "pdf", desc |-> "item", item |-> i, inputs |-> <<>>])

ItemPdf ==
  /\ pc = "loop" /\ idx <= Len(items)
  /\ items[idx].type = "pdf"
  /\ lastWasHeading' = FALSE
  /\ \E exists \in BOOLEAN, hasText \in BOOLEAN :
       IF ~exists
       THEN /\ hasText
            /\ inputs' = WithBreak(idx)
            /\ pdfSequence' = pdfSequence
            /\ Continue(<<Msg("Skipped missing PDF", 0)>>, "missing", "none")
       ELSE IF format \in {"markdown", "epub"}
            THEN /\ inputs' = PushInput(WithBreak(idx),
                      El(IF hasText THEN "pdftext" ELSE "pdfnotext", idx))
                 /\ pdfSequence' = pdfSequence
                 /\ Continue(<<Msg("Extracting text from PDF", idx),
                               Msg(IF hasText THEN "Added PDF with extracted text"
                                   ELSE "Added PDF (no extractable text)", idx)>>,
                             IF hasText THEN "emitted" ELSE "notext", "none")
            ELSE /\ hasText
                 /\ pdfSequence' = NativePdf(pdfSequence, WithBreak(idx), idx)
                 /\ inputs' = <<>>
                 /\ Continue(<<Msg("Added PDF in sequence", idx)>>, "emitted", "none")
  /\ UNCHANGED <<items, format, engines, finalPdfSequence, ri, lastRender,
                 failedPages, attrVars, workdir, outFile, imgVars, sideVars>>

ItemDocx ==
  /\ pc = "loop" /\ idx <= Len(items)
  /\ items[idx].type = "docx"
  /\ lastWasHeading' = FALSE
  /\ \E exists \in BOOLEAN, convOk \in BOOLEAN :
       IF ~exists
       THEN /\ convOk
            /\ inputs' = WithBreak(idx)
            /\ scrubbed' = scrubbed
            /\ Continue(<<Msg("Skipped missing DOCX", 0)>>, "missing", "none")
       ELSE IF ~convOk
            THEN /\ inputs' = WithBreak(idx)
                 /\ scrubbed' = scrubbed
                 /\ Abort("pandoc docx")
            ELSE /\ inputs' = PushInput(WithBreak(idx), El("docx", idx))
                 /\ scrubbed' = Scrub(idx)
                 /\ Continue(<<Msg("Added DOCX", idx)>>, "emitted", "none")
  /\ UNCHANGED <<items, format, engines, finalPdfSequence, ri, lastRender,
                 failedPages, attrVars, workdir, outFile, imgVars, pdfSequence,
                 mergeVars, restVars, tocVars>>

CitesWebUnlessCached(it) == it.type = "url" /\ ~it.wiki /\ it.cached = "none"
\* if (it.type === "url" && it.source_url && !isWikipedia(it.source_url))
CitesWeb(it) == it.type = "url" /\ ~it.wiki

ItemUrl ==
  /\ pc = "loop" /\ idx <= Len(items)
  /\ items[idx].type \in {"url", "wikipedia"}
  /\ lastWasHeading' = FALSE
  /\ \E att \in Attempts, restOk \in BOOLEAN, convOk \in BOOLEAN :
       LET it == items[idx]
           useCache == it.type = "url" /\ it.cached # "none"
           r == IF useCache
                THEN [thrown |-> "none", content |-> it.cached, wikiAttr |-> FALSE]
                ELSE ConvertUrlToMdSmart(it, att, restOk, convOk)
           fin == IF useCache THEN "cache"
                  ELSE IF it.wiki THEN "rest" ELSE LastResponse(att)
           pre == IF useCache THEN <<Msg("Using cached content", idx)>> ELSE <<>>
       IN /\ (useCache \/ it.wiki) => (att = [i \in 1..NumUserAgents |-> "ok"])
          /\ (useCache \/ ~it.wiki) => restOk
          /\ useCache => convOk
          /\ wikipediaAttribution' =
               IF r.wikiAttr THEN Append(wikipediaAttribution, idx)
               ELSE wikipediaAttribution
          /\ IF r.thrown # "none"
             THEN /\ failedPages' = Append(failedPages,
                                           [item |-> idx, error |-> r.thrown])
                  /\ inputs' = WithBreak(idx)
                  /\ scrubbed' = scrubbed
                  /\ nonWikiAttribution' = nonWikiAttribution
                  /\ Continue(<<Msg("Skipped page (fetch error)", idx)>>, "fetcherr", fin)
             ELSE IF IsBotPlaceholder(r.content)
             THEN /\ failedPages' = Append(failedPages,
                                           [item |-> idx, error |-> BotReason])
                  /\ inputs' = WithBreak(idx)
                  /\ scrubbed' = scrubbed
                  /\ nonWikiAttribution' = nonWikiAttribution
                  /\ Continue(pre \o <<Msg("Skipped (bot protection)", idx)>>, "bot", fin)
             ELSE /\ failedPages' = failedPages
                  /\ inputs' = PushInput(WithBreak(idx), El("url", idx))
                  /\ scrubbed' = Scrub(idx)
                  /\ nonWikiAttribution' =
                       IF CitesWeb(it)
                       THEN Append(nonWikiAttribution, idx)
                       ELSE nonWikiAttribution
                  /\ Continue(pre \o <<Msg("Added URL", idx)>>, "emitted", fin)
  /\ UNCHANGED <<items, format, engines, pdfVars, workdir, outFile, imgVars,
                 mergeVars, restVars, tocVars>>

ItemImage ==
  /\ pc = "loop" /\ idx <= Len(items)
  /\ items[idx].type = "image"
  /\ lastWasHeading' = FALSE
  /\ \E exists \in BOOLEAN, copyOk \in BOOLEAN, dlOk \in BOOLEAN :
       IF items[idx].local
       THEN /\ dlOk
            /\ nonWikiAttribution' = nonWikiAttribution
            /\ IF ~exists
               THEN /\ copyOk
                    /\ inputs' = WithBreak(idx)
                    /\ Continue(<<Msg("Skipped missing image", 0)>>, "missing", "none")
               ELSE IF ~copyOk
               THEN /\ inputs' = WithBreak(idx)
                    /\ Abort("copyFileSync")
               ELSE /\ inputs' = PushInput(WithBreak(idx), El("image", idx))
                    /\ Continue(<<Msg("Added image", idx)>>, "emitted", "none")
       ELSE /\ exists /\ copyOk
            /\ IF ~dlOk
               THEN /\ inputs' = WithBreak(idx)
                    /\ nonWikiAttribution' = nonWikiAttribution
                    /\ Continue(<<Msg("Skipped image (download error)", idx)>>, "dlerr", "none")
               ELSE /\ inputs' = PushInput(WithBreak(idx), El("image", idx))
                    /\ nonWikiAttribution' = Append(nonWikiAttribution, idx)
                    /\ Continue(<<Msg("Added image", idx)>>, "emitted", "none")
  /\ UNCHANGED <<items, format, engines, pdfVars, failedPages,
                 wikipediaAttribution, workdir, outFile, imgVars, sideVars>>

\* after the loop: the attribution page is the last input
Attribution ==
  /\ pc = "loop" /\ idx > Len(items)
  /\ pc' = "render"
  /\ IF Len(wikipediaAttribution) > 0 \/ Len(nonWikiAttribution) > 0
     THEN /\ inputs' = PushInput(inputs, El("attribution", 0))
          /\ scrubbed' = Scrub(0)
          /\ Report(<<Msg("Added attribution page", 0)>>)
     ELSE UNCHANGED <<inputs, step, reports, progress, scrubbed>>
  /\ UNCHANGED <<items, format, idx, engines, pdfVars, loopVars, failedPages,
                 attrVars, workdir, outFile, hist, abortedAt, imgVars,
                 mergeVars, restVars, tocVars>>

\* ---- rendering ----

CombineMarkdownNoTitle(t, ins) == ins
\* combined: the title block, then every input file followed by a blank line
CombineMarkdown(t, ins) ==
  (IF t # 0 THEN <<El("title", t), El("rule", t)>> ELSE <<>>) \o ins

RenderMarkdown ==
  /\ pc = "render" /\ format = "markdown"
  /\ outFile' = File(CombineMarkdown(TitlePageItem, inputs))
  /\ Report(<<Msg("Combining markdown files", 0),
              Msg("Markdown export complete", 0)>>)
  /\ pc' = "finish"
  /\ UNCHANGED <<items, format, idx, engines, inputs, pdfVars, loopVars,
                 failedPages, attrVars, workdir, hist, abortedAt, imgVars, sideVars>>

\* tryPandoc(null): one pandoc run over all inputs
RenderEpub ==
  /\ pc = "render" /\ format = "epub"
  /\ \E ok \in BOOLEAN :
       IF ok
       THEN /\ outFile' = File(inputs)
            /\ Report(<<Msg("Rendering EPUB with default engine", 0),
                        Msg("Pandoc render complete", 0)>>)
            /\ pc' = "finish"
       ELSE /\ outFile' = outFile
            /\ Raise(<<Msg("Rendering EPUB with default engine", 0)>>, "pandoc")
            /\ pc' = "done"
  /\ UNCHANGED <<items, format, idx, engines, inputs, pdfVars, loopVars,
                 failedPages, attrVars, workdir, hist, abortedAt, imgVars, sideVars>>

\* remaining markdown inputs become the last batch
PdfFlush ==
  /\ pc = "render" /\ format = "pdf"
  /\ pdfSequence' =
       IF Len(inputs) > 0
       THEN Append(pdfSequence, [type |-> "markdown", desc |-> "batch",
                                 item |-> 0, inputs |-> inputs])
       ELSE pdfSequence
  /\ ri' = 1
  /\ pc' = "batches"
  /\ UNCHANGED <<items, format, idx, step, reports, progress, engines, inputs,
                 finalPdfSequence, lastRender, loopVars, failedPages, attrVars,
                 workdir, outFile, hist, abortedAt, imgVars, sideVars>>

Range(f) == { f[i] : i \in DOMAIN f }

RECURSIVE TryFrom(_, _, _, _, _)
TryFrom(engs, runOk, k, tried, lastErr) ==
  IF k > Len(engs)
  THEN [tried |-> tried, ok |-> (lastErr = "none"), err |-> lastErr, ran |-> runOk]
  ELSE IF runOk[engs[k]]
       THEN [tried |-> Append(tried, engs[k]), ok |-> TRUE, err |-> "none",
             ran |-> runOk]
       ELSE TryFrom(engs, runOk, k + 1, Append(tried, engs[k]), engs[k])

TryFirstEngineOnly(engs, runOk) ==
  IF runOk[engs[1]]
  THEN [tried |-> <<engs[1]>>, ok |-> TRUE, err |-> "none", ran |-> runOk]
  ELSE [tried |-> <<engs[1]>>, ok |-> FALSE, err |-> engs[1], ran |-> runOk]
\* for (const eng of engines) { try { run; lastErr = null; break } catch { lastErr = e } }
TryEngines(engs, runOk) == TryFrom(engs, runOk, 1, <<>>, "none")

\* one element of pdfSequence: a PDF is taken as is, a batch is rendered
\* report(`Rendering markdown batch: ${item.description}`): the batch flushed
\* after the loop is 'Final markdown content', every other one 'Markdown content batch'
BatchDescription(k) ==
  IF k = Len(pdfSequence) THEN "Rendering markdown batch: Final markdown content"
  ELSE "Rendering markdown batch: Markdown content batch"

PdfComponent ==
  /\ pc = "batches" /\ ri <= Len(pdfSequence)
  /\ LET c == pdfSequence[ri]
     IN IF c.type = "pdf"
        THEN /\ finalPdfSequence' = Append(finalPdfSequence, c)
             /\ ri' = ri + 1
             /\ UNCHANGED <<pc, step, reports, progress, lastRender, renders>>
        ELSE \E runOk \in [Range(engines) -> BOOLEAN] :
               LET r == TryEngines(engines, runOk)
               IN /\ lastRender' = r
                  /\ renders' = Append(renders, [kind |-> "batch", args |-> BatchArgs,
                                                 ok |-> r.ok])
                  /\ step' = step + 1
                  /\ reports' = Append(reports, Msg(BatchDescription(ri), 0))
                  /\ IF r.ok
                     THEN /\ finalPdfSequence' = Append(finalPdfSequence, c)
                          /\ ri' = ri + 1
                          /\ pc' = pc
                          /\ progress' = Reported(1)
                     ELSE /\ finalPdfSequence' = finalPdfSequence
                          /\ ri' = ri
                          /\ pc' = "done"
                          /\ progress' = Thrown(r.err)
  /\ UNCHANGED <<items, format, idx, engines, inputs, pdfSequence, loopVars,
                 failedPages, attrVars, workdir, outFile, hist, abortedAt, imgVars,
                 mergeVars, restVars, includeToc, svgVars>>

PdfRendered ==
  /\ pc = "batches" /\ ri > Len(pdfSequence)
  /\ pc' = "merge"
  /\ Report(<<Msg("Pandoc rendering complete", 0)>>)
  /\ UNCHANGED <<items, format, idx, engines, inputs, pdfVars, loopVars,
                 failedPages, attrVars, workdir, outFile, hist, abortedAt, imgVars, sideVars>>

FindPdfMergerLast(avail) ==
  IF \E k \in 1..Len(MergerTools) : MergerTools[k] \in avail
  THEN CHOOSE k \in 1..Len(MergerTools) :
         /\ MergerTools[k] \in avail
         /\ \A j \in (k + 1)..Len(MergerTools) : MergerTools[j] \notin avail
  ELSE 0
\* findPdfMerger(): the first tool found among qpdf, pdfunite, gs; 0 if none
FindPdfMerger(avail) ==
  IF \E k \in 1..Len(MergerTools) : MergerTools[k] \in avail
  THEN CHOOSE k \in 1..Len(MergerTools) :
         /\ MergerTools[k] \in avail
         /\ \A j \in 1..(k - 1) : MergerTools[j] \notin avail
  ELSE 0

PdfMerge ==
  /\ pc = "merge"
  /\ IF Len(finalPdfSequence) > 1
     THEN \E avail \in SUBSET Range(MergerTools), ok \in BOOLEAN :
            /\ installed' = avail
            /\ IF FindPdfMerger(avail) = 0
               THEN /\ ok
                    /\ merger' = "none"
                    /\ pc' = "done"
                    /\ Raise(<<Msg("Merging PDF components in order", 0)>>,
                             "no PDF merger tool found")
                    /\ outFile' = outFile
               ELSE /\ merger' = MergerTools[FindPdfMerger(avail)]
                    /\ IF ok
                       THEN /\ pc' = "finish"
                            /\ Report(<<Msg("Merging PDF components in order", 0),
                                        Msg("PDF export complete", 0)>>)
                            /\ outFile' = File(finalPdfSequence)
                       ELSE /\ pc' = "done"
                            /\ Raise(<<Msg("Merging PDF components in order", 0)>>,
                                     merger')
                            /\ outFile' = outFile
     ELSE /\ pc' = "finish"
          /\ merger' = merger
          /\ installed' = installed
          /\ Report(<<Msg("PDF export complete", 0)>>)
          /\ outFile' = IF Len(finalPdfSequence) = 1
                        THEN File(finalPdfSequence)
                        ELSE outFile
  /\ UNCHANGED <<items, format, idx, engines, inputs, pdfVars, loopVars,
                 failedPages, attrVars, workdir, hist, abortedAt, imgVars,
                 restVars, tocVars, svgVars>>

ReturnedFailedPagesAlwaysList(fp) == [kind |-> "list", list |-> fp]
\* failedPages: failedPages.length > 0 ? failedPages : null
ReturnedFailedPages(fp) ==
  IF Len(fp) > 0 THEN [kind |-> "list", list |-> fp]
  ELSE [kind |-> "null", list |-> <<>>]

\* report("Done"), the work directory is removed, the route stores the result
Finish ==
  /\ pc = "finish"
  /\ pc' = "done"
  /\ step' = step + 1
  /\ reports' = Append(reports, Msg("Done", 0))
  /\ workdir' = FALSE
  /\ progress' = [step |-> 1, total |-> 1, done |-> TRUE, error |-> progress.error,
                  output |-> "outPath",
                  failedPages |-> ReturnedFailedPages(failedPages)]
  /\ UNCHANGED <<items, format, idx, engines, inputs, pdfVars, loopVars,
                 failedPages, attrVars, outFile, hist, abortedAt, imgVars, sideVars>>

Next ==
  \/ Prepare
  \/ TitlePage
  \/ ItemTitlepage
  \/ ItemHeading
  \/ ItemPdf
  \/ ItemDocx
  \/ ItemUrl
  \/ ItemImage
  \/ Attribution
  \/ RenderMarkdown
  \/ RenderEpub
  \/ PdfFlush
  \/ PdfComponent
  \/ PdfRendered
  \/ PdfMerge
  \/ Finish

Spec == Init /\ [][Next]_vars

\* exports of projects holding any row the item routes can store
InitWeb == Submitted(WebItemLists, BOOLEAN)
SpecWeb == InitWeb /\ [][Next]_vars

\* the background task is one async function: once started it keeps running as
\* long as every awaited external call returns
FairSpec == Spec /\ WF_vars(Next)

\* ---- image directive (image branch of the item loop) ----

\* opts.widthPct || 80: an absent width and the number 0 both give 80
WidthOrDefault(opts) ==
  IF ~opts.hasWidth \/ opts.widthPct = 0 THEN DefaultWidthPct ELSE opts.widthPct

\* Math.min(100, Math.max(10, Number(opts.widthPct || 80)))
ImageWidthPct(opts) == Min(MaxWidthPct, Max(MinWidthPct, WidthOrDefault(opts)))

\* (typeof opts.caption === "string" ? opts.caption : "").trim()
ImageCaption(opts) == IF opts.caption = NoValue THEN "" ELSE opts.caption

\* caption || it.title || "Image"
ImageAlt(opts) ==
  IF ImageCaption(opts) # "" THEN ImageCaption(opts)
  ELSE IF opts.title # "" THEN opts.title ELSE "Image"

InitImage ==
  /\ NoRenders
  /\ NoPaths
  /\ items = <<>>
  /\ format \in Formats
  /\ pc = "image"
  /\ idx = 0
  /\ step = 0
  /\ reports = <<>>
  /\ progress = [step |-> 0, total |-> 1, done |-> FALSE, error |-> "none",
                 output |-> "none", failedPages |-> Unset]
  /\ engines = <<>>
  /\ inputs = <<>>
  /\ pdfSequence = <<>>
  /\ finalPdfSequence = <<>>
  /\ ri = 0
  /\ isFirstItem = TRUE
  /\ lastWasHeading = FALSE
  /\ failedPages = <<>>
  /\ wikipediaAttribution = <<>>
  /\ nonWikiAttribution = <<>>
  /\ workdir = TRUE
  /\ outFile = NoFile
  /\ hist = <<>>
  /\ lastRender = NoRender
  /\ abortedAt = 0
  /\ imgIn \in ImageInputs
  /\ imgOut = NoImage
  /\ merger = NotLooked
  /\ installed = {}
  /\ NoJobs
  /\ NoStore
  /\ NoAccess

\* itemMd of an image item: optional "# title" heading, then
\* ![alt](file){width=W%}
ImageDirective ==
  /\ pc = "image"
  /\ pc' = "imageDone"
  /\ imgOut' = [width |-> ImageWidthPct(imgIn), alt |-> ImageAlt(imgIn),
                heading |-> (imgIn.title # "")]
  /\ UNCHANGED <<items, format, idx, step, reports, progress, engines, inputs, pdfVars,
                 loopVars, failedPages, attrVars, workdir, outFile, hist,
                 abortedAt, imgIn, sideVars>>

SpecImage == InitImage /\ [][ImageDirective]_vars

\* ---- export jobs and progress streams ----

pipeVars0 == <<items, format, pc, idx, step, reports, progress, engines, inputs, pdfVars,
               loopVars, failedPages, attrVars, workdir, outFile, hist,
               abortedAt, imgVars, mergeVars, tocVars, svgVars>>
pipeVars == <<pipeVars0, pathVars>>

\* no pipeline is stepped through in detail
IdlePipeline ==
  /\ NoRenders
  /\ NoPaths
  /\ items = <<>>
  /\ format = "pdf"
  /\ pc = "idle"
  /\ idx = 0
  /\ step = 0
  /\ reports = <<>>
  /\ progress = [step |-> 0, total |-> 1, done |-> FALSE, error |-> "none",
                 output |-> "none", failedPages |-> Unset]
  /\ engines = <<>>
  /\ inputs = <<>>
  /\ pdfSequence = <<>>
  /\ finalPdfSequence = <<>>
  /\ ri = 0
  /\ isFirstItem = TRUE
  /\ lastWasHeading = FALSE
  /\ failedPages = <<>>
  /\ wikipediaAttribution = <<>>
  /\ nonWikiAttribution = <<>>
  /\ workdir = FALSE
  /\ outFile = NoFile
  /\ hist = <<>>
  /\ lastRender = NoRender
  /\ abortedAt = 0
  /\ imgIn = [hasWidth |-> FALSE, widthPct |-> 0, caption |-> NoValue,
              title |-> ""]
  /\ imgOut = NoImage
  /\ merger = NotLooked
  /\ installed = {}

InitJobs == IdlePipeline /\ NoJobs /\ NoStore /\ NoAccess

SharedKey(j) == 1
\* jobId = nanoid(12): every job writes under its own fresh id
JobKey(j) == j

\* POST /api/projects/:id/export: the entry is created, the job starts
SubmitExport(j) ==
  /\ jobs[j].pc = "free"
  /\ PROGRESS' = SetProgress(PROGRESS, JobKey(j),
                    [step |-> 0, total |-> 1, message |-> "Starting export...",
                     done |-> FALSE])
  /\ jobs' = [jobs EXCEPT ![j].pc = "running"]
  /\ UNCHANGED <<subs, pipeVars, snapVars, accVars>>

\* progress callback: setProgress(jobId, { ...progress, done: false })
ProgressCb(j) ==
  /\ jobs[j].pc = "running"
  /\ jobs[j].step < MaxReports + 1
  /\ jobs' = [jobs EXCEPT ![j].step = @ + 1]
  /\ PROGRESS' = SetProgress(PROGRESS, JobKey(j),
                    [step |-> Min(jobs[j].step + 1, MaxReports),
                     total |-> MaxReports, message |-> "report",
                     done |-> FALSE])
  /\ UNCHANGED <<subs, pipeVars, snapVars, accVars>>

\* exportProjectTo returned: the final state of a successful job
ExportDone(j) ==
  /\ jobs[j].pc = "running"
  /\ jobs' = [jobs EXCEPT ![j].pc = "ended"]
  /\ \E failed \in BOOLEAN :
       PROGRESS' = SetProgress(PROGRESS, JobKey(j),
                     [step |-> 1, total |-> 1, message |-> "Done", done |-> TRUE,
                      output |-> "outPath",
                      failedPages |-> IF failed THEN "list" ELSE "null"])
  /\ UNCHANGED <<subs, pipeVars, snapVars, accVars>>

\* exportProjectTo threw: catch (err) of the background task
ExportError(j) ==
  /\ jobs[j].pc = "running"
  /\ jobs' = [jobs EXCEPT ![j].pc = "ended"]
  /\ PROGRESS' = SetProgress(PROGRESS, JobKey(j),
                    [step |-> 1, total |-> 1, message |-> "Error", done |-> TRUE,
                     error |-> "message"])
  /\ UNCHANGED <<subs, pipeVars, snapVars, accVars>>

\* PROGRESS.get(id) || { step: 0, total: 1, message: "Starting..." }
Snapshot(id) ==
  IF PROGRESS[id] = NoEntry
  THEN [step |-> 0, total |-> 1, message |-> "Starting..."]
  ELSE PROGRESS[id]

\* send() of a progress stream: the entry is written to the response; the
\* interval is cleared once the entry is done or holds an error
Send(u, id) ==
  LET st == Snapshot(id)
  IN subs' = [subs EXCEPT ![u] = [open |-> ~(IsDone(st) \/ HasError(st)),
                                  id |-> id, sent |-> 1, last |-> st]]

\* GET /api/progress/:id: a stream is opened and send() runs once
Subscribe(u, id) ==
  /\ ~subs[u].open /\ subs[u].sent = 0
  /\ Send(u, id)
  /\ UNCHANGED <<PROGRESS, jobs, pipeVars, snapVars, accVars>>

\* setInterval(send, 300)
Tick(u) ==
  /\ subs[u].open
  /\ Send(u, subs[u].id)
  /\ UNCHANGED <<PROGRESS, jobs, pipeVars, snapVars, accVars>>

\* req.on("close"): the client went away
CloseStream(u) ==
  /\ subs[u].open
  /\ subs' = [subs EXCEPT ![u].open = FALSE]
  /\ UNCHANGED <<PROGRESS, jobs, pipeVars, snapVars, accVars>>

NextJobs ==
  \/ \E j \in JobIds : SubmitExport(j)
  \/ \E j \in JobIds : ProgressCb(j)
  \/ \E j \in JobIds : ExportDone(j)
  \/ \E j \in JobIds : ExportError(j)
  \/ \E u \in SubIds, id \in JobIds : Subscribe(u, id)
  \/ \E u \in SubIds : Tick(u)
  \/ \E u \in SubIds : CloseStream(u)

SpecJobs == InitJobs /\ [][NextJobs]_vars

\* ---- item routes running beside an export ----

RowTypes == {"url", "heading"}
RowTitles == {"A", "B"}

Row(id, type, title, cached) ==
  [id |-> id, type |-> type, title |-> title, cached |-> cached]

\* rows of one project as getItems returns them (ORDER BY position ASC)
InitialRows ==
  UNION { { r \in [1..n -> [id : 1..n, type : RowTypes, title : {"A"},
                            cached : {"none", "content"}]] :
              \A i \in 1..n : /\ r[i].id = i
                               /\ r[i].cached # "none" => r[i].type = "url" }
          : n \in 0..MaxRows }

InitSnapshot ==
  /\ IdlePipeline
  /\ NoJobs
  /\ NoAccess
  /\ \E r \in InitialRows : store = [rows |-> r, nextId |-> Len(r) + 1, edits |-> 0]
  /\ jobItems = <<>>
  /\ expo = [pc |-> "idle", k |-> 0, submitted |-> <<>>, processed |-> <<>>,
             during |-> 0]

\* a write to the items table; it is counted when an export is running
Edited(rows, id) ==
  /\ store.edits < MaxEdits
  /\ store' = [rows |-> rows, nextId |-> id, edits |-> store.edits + 1]
  /\ expo' = IF expo.pc = "running"
             THEN [expo EXCEPT !.during = @ + 1]
             ELSE expo
  /\ UNCHANGED <<jobItems, pipeVars, jobVars, accVars>>

RemoveAt(seq, i) == SubSeq(seq, 1, i - 1) \o SubSeq(seq, i + 1, Len(seq))
Swap(seq, i, j) == [seq EXCEPT ![i] = seq[j], ![j] = seq[i]]

\* POST /api/projects/:id/items: the new row takes the last position
CreateItem(type, cacheContent, fetched) ==
  /\ Len(store.rows) <= MaxRows
  /\ LET cached == IF type = "url" /\ cacheContent /\ fetched
                   THEN "content" ELSE "none"
     IN Edited(Append(store.rows, Row(store.nextId, type, "A", cached)),
               store.nextId + 1)

\* PUT /api/projects/:id/items/reorder
ReorderItems(i, j) ==
  /\ i < j
  /\ Edited(Swap(store.rows, i, j), store.nextId)

\* PATCH /api/projects/:id/items/:itemId
PatchItem(i, title) ==
  Edited([store.rows EXCEPT ![i].title = title], store.nextId)

\* DELETE /api/projects/:id/items/:itemId
DeleteItem(i) == Edited(RemoveAt(store.rows, i), store.nextId)

\* POST /api/projects/:id/items/:itemId/cache
CacheToggle(i, cache, fetched) ==
  /\ store.rows[i].type = "url"
  /\ (cache /\ store.rows[i].cached = "none") => fetched
  /\ LET cached == IF cache /\ store.rows[i].cached = "none" THEN "content"
                   ELSE IF ~cache THEN "none"
                   ELSE store.rows[i].cached
     IN Edited([store.rows EXCEPT ![i].cached = cached], store.nextId)

\* POST /api/projects/:id/export: items = getItems.all(p.id).map(...)
SubmitSnapshot ==
  /\ expo.pc = "idle"
  /\ jobItems' = store.rows
  /\ expo' = [expo EXCEPT !.pc = "running", !.k = 1, !.submitted = store.rows]
  /\ UNCHANGED <<store, pipeVars, jobVars, accVars>>

ExportItemFromTable(k) ==
  IF k <= Len(store.rows) THEN store.rows[k] ELSE jobItems[k]
\* for (const it of items): the k-th item the loop works on
ExportItem(k) == jobItems[k]

ProcessItem ==
  /\ expo.pc = "running"
  /\ expo.k <= Len(jobItems)
  /\ expo' = [expo EXCEPT !.k = @ + 1,
                          !.processed = Append(@, ExportItem(expo.k))]
  /\ UNCHANGED <<store, jobItems, pipeVars, jobVars, accVars>>

EndExport ==
  /\ expo.pc = "running"
  /\ expo.k > Len(jobItems)
  /\ expo' = [expo EXCEPT !.pc = "finished"]
  /\ UNCHANGED <<store, jobItems, pipeVars, jobVars, accVars>>

NextSnapshot ==
  \/ \E t \in RowTypes, c \in BOOLEAN, f \in BOOLEAN : CreateItem(t, c, f)
  \/ \E i, j \in 1..Len(store.rows) : ReorderItems(i, j)
  \/ \E i \in 1..Len(store.rows), t \in RowTitles : PatchItem(i, t)
  \/ \E i \in 1..Len(store.rows) : DeleteItem(i)
  \/ \E i \in 1..Len(store.rows), c \in BOOLEAN, f \in BOOLEAN : CacheToggle(i, c, f)
  \/ SubmitSnapshot
  \/ ProcessItem
  \/ EndExport

SpecSnapshot == InitSnapshot /\ [][NextSnapshot]_vars

\* ---- access request routes ----

InitAccess == IdlePipeline /\ NoJobs /\ NoStore /\ NoAccess

\* the response of call number reply.n + 1
Reply(op, id, error) == [n |-> reply.n + 1, op |-> op, id |-> id, error |-> error]

Pending(email) ==
  \E r \in ReqIds : access_requests[r] = [status |-> "pending", email |-> email]

\* POST /api/access-request
SubmitAccessRequest(email) ==
  /\ reply.n < MaxCalls
  /\ UNCHANGED <<users, approvedUsers, pipeVars, jobVars, snapVars>>
  /\ IF Pending(email)
     THEN /\ reply' = Reply("submit", 0, "You already have a pending access request")
          /\ UNCHANGED access_requests
     ELSE IF email \in users
     THEN /\ reply' = Reply("submit", 0, "account exists")
          /\ UNCHANGED access_requests
     ELSE \E r \in ReqIds :
            /\ access_requests[r].status = "none"
            /\ access_requests' = [access_requests EXCEPT
                                     ![r] = [status |-> "pending", email |-> email]]
            /\ reply' = Reply("submit", r, "none")

CanProcessAny(req) == TRUE
\* if (request.status !== 'pending') return 400 "Request already processed"
CanProcess(req) == req.status = "pending"

\* POST /api/access-requests/:id/approve
ApproveRequest(id) ==
  /\ reply.n < MaxCalls
  /\ UNCHANGED <<pipeVars, jobVars, snapVars>>
  /\ LET request == access_requests[id]
     IN IF request.status = "none"
        THEN /\ reply' = Reply("approve", id, "Request not found")
             /\ UNCHANGED <<access_requests, users, approvedUsers>>
        ELSE IF ~CanProcess(request)
        THEN /\ reply' = Reply("approve", id, "Request already processed")
             /\ UNCHANGED <<access_requests, users, approvedUsers>>
        ELSE IF request.email \in users
        THEN /\ reply' = Reply("approve", id, "Failed to create user account")
             /\ UNCHANGED <<access_requests, users, approvedUsers>>
        ELSE /\ users' = users \cup {request.email}
             /\ approvedUsers' = approvedUsers \cup {request.email}
             /\ access_requests' = [access_requests EXCEPT ![id].status = "approved"]
             /\ reply' = Reply("approve", id, "none")

\* POST /api/access-requests/:id/decline
DeclineRequest(id) ==
  /\ reply.n < MaxCalls
  /\ UNCHANGED <<users, approvedUsers, pipeVars, jobVars, snapVars>>
  /\ LET request == access_requests[id]
     IN IF request.status = "none"
        THEN /\ reply' = Reply("decline", id, "Request not found")
             /\ UNCHANGED access_requests
        ELSE IF ~CanProcess(request)
        THEN /\ reply' = Reply("decline", id, "Request already processed")
             /\ UNCHANGED access_requests
        ELSE /\ access_requests' = [access_requests EXCEPT ![id].status = "declined"]
             /\ reply' = Reply("decline", id, "none")

\* POST /api/admin/users
AdminCreateUser(username) ==
  /\ reply.n < MaxCalls
  /\ UNCHANGED <<access_requests, approvedUsers, pipeVars, jobVars, snapVars>>
  /\ IF username \in users
     THEN /\ reply' = Reply("create", 0, "Username already exists")
          /\ UNCHANGED users
     ELSE /\ users' = users \cup {username}
          /\ reply' = Reply("create", 0, "none")

NextAccess ==
  \/ \E e \in Emails : SubmitAccessRequest(e)
  \/ \E r \in ReqIds : ApproveRequest(r)
  \/ \E r \in ReqIds : DeclineRequest(r)
  \/ \E e \in Emails : AdminCreateUser(e)

SpecAccess == InitAccess /\ [][NextAccess]_vars

\* ---- output paths of concurrent exports ----

InvalidChars == {"<", ">", ":", "\"", "/", "\\", "|", "?", "*"}
NameLimit == 100
Untitled == <<"U", "n", "t", "i", "t", "l", "e", "d">>

RECURSIVE StripInvalid(_)
\* .replace(/[<>:"/\\|?*]/g, '')
StripInvalid(n) ==
  IF n = <<>> THEN <<>>
  ELSE (IF Head(n) \in InvalidChars THEN <<>> ELSE <<Head(n)>>) \o StripInvalid(Tail(n))

RECURSIVE Underscore(_)
\* .replace(/\s+/g, '_'): every run of spaces becomes one underscore
Underscore(n) ==
  IF n = <<>> THEN <<>>
  ELSE IF Head(n) = " "
       THEN IF Len(n) > 1 /\ n[2] = " " THEN Underscore(Tail(n))
            ELSE <<"_">> \o Underscore(Tail(n))
       ELSE <<Head(n)>> \o Underscore(Tail(n))

\* sanitizedName: (project.name || "Untitled"), cleaned, at most 100 characters
SanitizedName(n) ==
  LET clean == Underscore(StripInvalid(IF n = <<>> THEN Untitled ELSE n))
  IN SubSeq(clean, 1, Min(Len(clean), NameLimit))

\* ext = format === "markdown" ? "md" : format
Ext(f) == IF f = "markdown" THEN ".md" ELSE IF f = "pdf" THEN ".pdf" ELSE ".epub"

\* outPath = EXPORTS_DIR/${sanitizedName}-${Date.now()}.${ext}
OutPath(n, t, f) == [name |-> SanitizedName(n), time |-> t, suffix |-> Ext(f)]

\* merged = EXPORTS_DIR/${outBase}-merged.pdf
MergedPath(out) == [out EXCEPT !.suffix = "-merged.pdf"]

InitPaths == IdlePipeline /\ NoJobs /\ NoStore /\ NoAccess

\* the clock reaches the next millisecond
ClockTick ==
  /\ clock < MaxClock
  /\ clock' = clock + 1
  /\ UNCHANGED <<running, tmpDirs, pipeVars0, jobVars, snapVars, accVars>>

\* exportProjectTo is entered for project p, named n: outPath is computed and
\* mkdtempSync makes a directory build-<p>-<random> that did not exist
StartExport(j, p, n, f) ==
  /\ running[j].pc = "free"
  /\ \E r \in 1..MaxSuffix :
       LET dir == [project |-> p, rand |-> r]
       IN /\ dir \notin tmpDirs
          /\ tmpDirs' = tmpDirs \cup {dir}
          /\ running' = [running EXCEPT ![j] =
                           [pc |-> "running", format |-> f,
                            outPath |-> OutPath(n, clock, f), workdir |-> dir]]
  /\ UNCHANGED <<clock, pipeVars0, jobVars, snapVars, accVars>>

\* the export returns (its work directory is removed) or throws (it is left)
EndOfExport(j) ==
  /\ running[j].pc = "running"
  /\ \E ok \in BOOLEAN :
       tmpDirs' = IF ok THEN tmpDirs \ {running[j].workdir} ELSE tmpDirs
  /\ running' = [running EXCEPT ![j] = Idle]
  /\ UNCHANGED <<clock, pipeVars0, jobVars, snapVars, accVars>>

NextPaths ==
  \/ ClockTick
  \/ \E j \in ExportIds, p \in ProjectIds, n \in ProjectNames, f \in Formats :
       StartExport(j, p, n, f)
  \/ \E j \in ExportIds : EndOfExport(j)

SpecPaths == InitPaths /\ [][NextPaths]_vars

\* ---- properties ----

\* the elements a PDF component shows
CompElements(c) ==
  IF c.type = "markdown" THEN c.inputs
  ELSE IF c.desc = "Title page" THEN <<El("title", c.item)>>
  ELSE <<El("pdf", c.item)>>

RECURSIVE Flatten(_)
Flatten(cs) ==
  IF cs = <<>> THEN <<>> ELSE CompElements(Head(cs)) \o Flatten(Tail(cs))

Written == outFile.written

\* the written output as one stream of elements
OutStream ==
  IF format = "pdf" THEN Flatten(outFile.parts) ELSE outFile.parts

\* everything emitted so far by the item loop
\* (ri > 0: the last batch has been moved from inputs to pdfSequence)
Emitted == IF ri > 0 THEN Flatten(pdfSequence) ELSE Flatten(pdfSequence) \o inputs

ContentKinds == {"title", "heading", "pdftext", "pdfnotext", "docx", "url",
                 "image", "pdf"}

Positions(seq, i, kinds) ==
  { k \in 1..Len(seq) : seq[k].item = i /\ seq[k].kind \in kinds }

ContentPos(i) == Positions(OutStream, i, ContentKinds)

ItemIds == 1..Len(items)
Processed == 1..Len(hist)
Succeeded == pc = "done" /\ progress.done /\ progress.error = "none"

CompItems(c) ==
  { e.item : e \in { x \in Range(CompElements(c)) : x.kind \in ContentKinds } }

IsTitleComp(c) == c.type = "pdf" /\ c.desc = "Title page"

\* C2: in a PDF export the components handed to the merge step follow the
\* input order: the items of an earlier component (batch or native PDF) are
\* all positioned before the items of every later one, each native PDF is a
\* component of its own, and every emitted item lies in exactly one component.
C2_ComponentOrder ==
  format = "pdf" =>
    /\ \A a \in 1..Len(finalPdfSequence), b \in 1..Len(finalPdfSequence) :
         (a < b /\ ~IsTitleComp(finalPdfSequence[a])
                /\ ~IsTitleComp(finalPdfSequence[b]))
           => \A i \in CompItems(finalPdfSequence[a]),
                 j \in CompItems(finalPdfSequence[b]) : i < j
    /\ pc \in {"merge", "finish"} =>
         \A i \in ItemIds :
           (hist[i].res = "emitted") =>
             /\ Cardinality({ a \in 1..Len(finalPdfSequence) :
                               i \in CompItems(finalPdfSequence[a]) }) = 1
             /\ items[i].type = "pdf" =>
                  \E a \in 1..Len(finalPdfSequence) :
                    /\ finalPdfSequence[a].type = "pdf"
                    /\ finalPdfSequence[a].item = i

C2_Witness ==
  /\ format = "pdf" /\ pc = "merge"
  /\ Len(finalPdfSequence) = 3
  /\ finalPdfSequence[1].type = "markdown" /\ CompItems(finalPdfSequence[1]) = {1}
  /\ finalPdfSequence[2].type = "pdf" /\ finalPdfSequence[2].item = 2
  /\ finalPdfSequence[3].type = "markdown" /\ 3 \in CompItems(finalPdfSequence[3])

\* number of page breaks pushed before item i
Breaks(i) == Cardinality(Positions(Emitted, i, {"pagebreak"}))

\* C3 (as stated): for every processed item there is a page break before it
\* exactly when it is not the first item and the item before it is no heading.
C3_AdjacencyAllItems ==
  \A i \in Processed :
    Breaks(i) = (IF i > 1 /\ items[i - 1].type # "heading" THEN 1 ELSE 0)

\* C3 (amended): the rule holds for every item that is not a title page, and
\* no page break is ever inserted before a title-page item.
C3_Adjacency ==
  \A i \in Processed :
    Breaks(i) = (IF i > 1 /\ items[i - 1].type # "heading"
                    /\ items[i].type # "titlepage" THEN 1 ELSE 0)

C3_Witness ==
  /\ Len(hist) = 3
  /\ items[1].type = "heading" /\ items[2].type = "url" /\ items[3].type = "docx"
  /\ Breaks(1) = 0 /\ Breaks(2) = 0 /\ Breaks(3) = 1

\* the fragment a non-failed item contributes
FragmentKind(i) ==
  CASE items[i].type = "titlepage" -> "title"
    [] items[i].type = "heading" -> "heading"
    [] items[i].type = "pdf" ->
         IF hist[i].res = "notext" THEN "pdfnotext" ELSE "pdftext"
    [] items[i].type = "docx" -> "docx"
    [] items[i].type = "image" -> "image"
    [] OTHER -> "url"

NotFailed(i) == hist[i].res \in {"emitted", "notext", "titlepage"}

\* the fragments of the non-failed items among items 1..n, in position order
RECURSIVE FragmentsUpTo(_)
FragmentsUpTo(n) ==
  IF n = 0 THEN <<>>
  ELSE FragmentsUpTo(n - 1) \o
       (IF NotFailed(n) THEN <<El(FragmentKind(n), n)>> ELSE <<>>)

\* page breaks and fragments of items 1..n by the page-break rule: a break
\* before every item but the first, title pages and successors of a heading
RECURSIVE StreamUpTo(_)
StreamUpTo(n) ==
  IF n = 0 THEN <<>>
  ELSE StreamUpTo(n - 1) \o
       (IF n > 1 /\ items[n].type # "titlepage" /\ items[n - 1].type # "heading"
        THEN <<El("pagebreak", n)>> ELSE <<>>) \o
       (IF NotFailed(n) /\ items[n].type # "titlepage"
        THEN <<El(FragmentKind(n), n)>> ELSE <<>>)

\* a source was cited: an emitted url or wikipedia item, or a downloaded image
Cited ==
  \E i \in Processed :
    /\ hist[i].res = "emitted"
    /\ \/ items[i].type \in {"url", "wikipedia"}
       \/ items[i].type = "image" /\ ~items[i].local

MarkdownWritten == format = "markdown" /\ Written

\* C4 (as stated): the markdown output is exactly the fragments of the
\* non-failed items in position order, nothing added and nothing omitted.
C4_ExactFragments ==
  MarkdownWritten => outFile.parts = FragmentsUpTo(Len(items))

\* C4 (amended): the markdown output is the title and a horizontal rule when
\* there is a title page, then in position order for every other item a page
\* break where the page-break rule asks for one and the item's fragment when
\* it did not fail, then the attribution section when a source was cited;
\* nothing else is added and nothing omitted.
C4_ExactStream ==
  MarkdownWritten =>
    outFile.parts =
      (IF TitlePageItem # 0
       THEN <<El("title", TitlePageItem), El("rule", TitlePageItem)>>
       ELSE <<>>) \o
      StreamUpTo(Len(items)) \o
      (IF Cited THEN <<El("attribution", 0)>> ELSE <<>>)

C4_Witness ==
  /\ MarkdownWritten /\ Succeeded
  /\ Len(items) = 3 /\ TitlePageItem = 2
  /\ hist[1].res = "emitted" /\ hist[3].res = "bot"
  /\ Len(outFile.parts) = 5

Scenario ==
  /\ format = "markdown" /\ Written
  /\ Len(items) = 3
  /\ items[1].type = "titlepage" /\ items[2].type = "heading"
  /\ items[3].type = "url" /\ hist[3].res = "emitted"

\* C5 (as stated): [titlepage, heading, url] exported to markdown begins with
\* the title, immediately followed by the heading, immediately followed by
\* the URL content.
C5_TitleHeadingContent ==
  Scenario => SubSeq(outFile.parts, 1, 3) =
                <<El("title", 1), El("heading", 2), El("url", 3)>>

\* C5 (amended): the output begins with the title and a horizontal rule, then
\* a page break, then the heading immediately followed by the URL content.
C5_TitleRuleBreakHeadingContent ==
  Scenario => SubSeq(outFile.parts, 1, 5) =
                <<El("title", 1), El("rule", 1), El("pagebreak", 2),
                  El("heading", 2), El("url", 3)>>

C5_Witness == Scenario /\ Succeeded /\ Len(outFile.parts) = 6

FailedWith(i, reason) ==
  \E k \in 1..Len(failedPages) : failedPages[k] = [item |-> i, error |-> reason]

FailedEntries(i) == { k \in 1..Len(failedPages) : failedPages[k].item = i }

\* C6: when the last response fetchHtml got for a url item holds a challenge
\* marker, the item has exactly one failed-pages entry, with the bot-protection
\* reason, nothing of the item is emitted or written, processing it does not
\* end the job, and a job that ends without error reports that entry.
C6_BotProtection ==
  \A i \in Processed :
    hist[i].fin = "marker" =>
      /\ FailedWith(i, BotReason)
      /\ Cardinality(FailedEntries(i)) = 1
      /\ Positions(Emitted, i, ContentKinds) = {}
      /\ ContentPos(i) = {}
      /\ abortedAt # i
      /\ hist[i].res = "bot"
      /\ Succeeded =>
           /\ progress.failedPages.kind = "list"
           /\ \E k \in 1..Len(progress.failedPages.list) :
                progress.failedPages.list[k] = [item |-> i, error |-> BotReason]

C6_Witness ==
  /\ Succeeded /\ Written
  /\ Len(hist) = 2
  /\ hist[1].fin = "marker" /\ hist[2].res = "emitted"
  /\ ContentPos(2) # {}

BatchRendered == lastRender.tried # <<>>

\* C7: a batch is rendered by trying the detected engines in priority order
\* (tectonic, then xelatex): every engine tried before the last one failed,
\* the batch succeeds exactly when the last engine tried succeeded, and it
\* fails, ending the job with the last engine's error, only when every engine
\* was tried and failed.
C7_EngineFallback ==
  BatchRendered =>
    LET t == lastRender.tried
        n == Len(lastRender.tried)
    IN /\ engines \in {<<"tectonic">>, <<"xelatex">>, <<"tectonic", "xelatex">>}
       /\ t = SubSeq(engines, 1, n)
       /\ \A k \in 1..(n - 1) : ~lastRender.ran[t[k]]
       /\ lastRender.ok = lastRender.ran[t[n]]
       /\ ~lastRender.ok =>
            /\ t = engines
            /\ lastRender.err = engines[Len(engines)]
            /\ pc = "done" /\ progress.done /\ progress.error = lastRender.err
       /\ lastRender.ok => progress.error \notin Range(EngineNames)

C7_Witness ==
  /\ Succeeded /\ Written /\ format = "pdf"
  /\ Len(outFile.parts) > 1
  /\ lastRender.tried = <<"tectonic", "xelatex">>
  /\ lastRender.ok

C7_WitnessPrimaryMissing ==
  /\ Succeeded /\ Written /\ format = "pdf"
  /\ Len(outFile.parts) > 1
  /\ engines = <<"xelatex">>
  /\ BatchRendered

\* C8: the image width is the width option clamped to [10,100], 80 when no
\* width is given; with no caption the caption text is the item title, or
\* "Untitled" when the title is absent.
C8_ImageWidthAndCaption ==
  pc = "imageDone" =>
    /\ imgOut.width = (IF imgIn.hasWidth
                       THEN Min(MaxWidthPct, Max(MinWidthPct, imgIn.widthPct))
                       ELSE DefaultWidthPct)
    /\ (imgIn.caption \in {NoValue, ""}) =>
         imgOut.alt = (IF imgIn.title # "" THEN imgIn.title ELSE "Untitled")

\* C9: no failure while normalizing a single item ends the job in error.
C9_NoItemAbortsJob == (progress.done /\ progress.error # "none") => abortedAt = 0

\* C10: at the end of a job, the failed-items list names exactly the items
\* (title pages aside) that did not make it into the output as content.
C10_FailedListExact ==
  Succeeded =>
    \A i \in ItemIds :
      items[i].type # "titlepage" =>
        ((FailedEntries(i) # {}) <=> (ContentPos(i) = {}))

\* ---- job-scoped failures ----

\* engine detection of a PDF export found neither tectonic nor xelatex
NoEngineFound == format = "pdf" /\ pc # "start" /\ engines = <<>>
\* every detected engine failed on the batch rendered last
AllEnginesFailed == BatchRendered /\ ~lastRender.ok
\* more than one PDF component and findPdfMerger() returned nothing
NoMergerFound == merger = "none"

\* the job ended in error msg, without output path, and the pipeline stopped
EndedInError(msg) ==
  /\ pc = "done"
  /\ progress.done
  /\ progress.error = msg
  /\ progress.output = "none"
  /\ ~Written

\* C11: when no typesetting engine is found, when every engine fails on a
\* batch, or when more than one PDF component exists and no merge tool is
\* found, the final progress state has done = true and error = the failure
\* message, carries no output path, and no later pipeline stage has run.
C11_JobScopedFailure ==
  /\ NoEngineFound =>
        /\ EndedInError("No PDF engine detected")
        /\ idx = 0 /\ hist = <<>> /\ inputs = <<>> /\ pdfSequence = <<>>
  /\ AllEnginesFailed =>
        /\ EndedInError(lastRender.err)
        /\ lastRender.err = engines[Len(engines)]
        /\ ri <= Len(pdfSequence)
        /\ merger = NotLooked
  /\ NoMergerFound =>
        /\ EndedInError("no PDF merger tool found")
        /\ Len(finalPdfSequence) > 1

C11_Witness ==
  /\ NoMergerFound
  /\ progress.done
  /\ \E k \in 1..Len(finalPdfSequence) : finalPdfSequence[k].type = "markdown"

C11_WitnessNoEngine == NoEngineFound /\ progress.done
C11_WitnessRenderFailure ==
  AllEnginesFailed /\ progress.done /\ Len(engines) = 2 /\ Len(finalPdfSequence) > 0

\* ---- final state of a successful job ----

\* C12 (as stated): every job that ends without error has a final progress
\* state carrying the output path and the failed-items list, the list being
\* present as an empty list when no item failed.
C12_EmptyListWhenNoFailure ==
  Succeeded =>
    /\ progress.output # "none"
    /\ progress.failedPages.kind = "list"
    /\ progress.failedPages.list = failedPages

\* C12 (amended): every job that ends without error has a final progress
\* state carrying the output path and a failed-items field; the field is the
\* list of the recorded failures when there is one, and null when there is none.
C12_NullWhenNoFailure ==
  Succeeded =>
    /\ progress.output = "outPath"
    /\ IF Len(failedPages) > 0
       THEN progress.failedPages = [kind |-> "list", list |-> failedPages]
       ELSE progress.failedPages.kind = "null"

C12_Witness ==
  /\ Succeeded
  /\ Len(items) >= 2
  /\ failedPages = <<>>
  /\ progress.failedPages.kind = "null"

C12_WitnessSomeFailed ==
  Succeeded /\ Len(failedPages) > 0 /\ progress.failedPages.kind = "list"

\* ---- termination ----

\* the job has stopped: no step of the pipeline can be taken
Stopped == ~ENABLED Next

\* C13: every submitted export job eventually reaches a progress state with
\* done = true, with an output path or with an error, provided every external
\* call returns; and no reachable state has the job stopped with done = false.
C13_EventuallyDone ==
  /\ <>(progress.done /\ (progress.output # "none" \/ progress.error # "none"))
  /\ [](Stopped => progress.done)

C13_Witness ==
  /\ Stopped
  /\ progress.done
  /\ progress.output # "none"
  /\ format = "epub"
  /\ Len(items) >= 2

\* ---- terminal progress states ----

\* C14: once a job's progress state has done = true it is never modified
\* again, under any interleaving with other jobs and progress streams.
C14_DoneIsTerminal ==
  [][\A j \in JobIds : IsDone(PROGRESS[j]) => PROGRESS'[j] = PROGRESS[j]]_vars

\* one job is done, another one reported after that, a stream read the done entry
C14_Witness ==
  \E j, k \in JobIds :
    /\ j # k
    /\ IsDone(PROGRESS[j])
    /\ jobs[k].pc = "running" /\ jobs[k].step > 0
    /\ \E u \in SubIds : subs[u].sent = 1 /\ subs[u].id = j /\ IsDone(subs[u].last)

\* ---- work directory ----

\* C15: the temporary working directory a job allocated no longer exists once
\* the job is done, whether it ended in success or in error.
C15_WorkdirRemoved == progress.done => ~workdir

\* ---- snapshot of the items ----

\* C16: item create, update, delete, reorder and cache-toggle operations made
\* after an export was submitted and before it finishes change neither the
\* set, nor the order, nor the stored fields (cached content included) of the
\* items that export processes.
C16_SnapshotIsolated ==
  expo.pc # "idle" =>
    /\ jobItems = expo.submitted
    /\ Len(expo.processed) <= Len(expo.submitted)
    /\ \A n \in 1..Len(expo.processed) : expo.processed[n] = expo.submitted[n]
    /\ expo.pc = "finished" => expo.processed = expo.submitted

C16_Witness ==
  /\ expo.pc = "finished"
  /\ Len(expo.submitted) >= 2
  /\ expo.during >= 2
  /\ Len(store.rows) = Len(expo.submitted)
  /\ \A n \in 1..Len(store.rows) : store.rows[n] # expo.submitted[n]

\* ---- cached content and attribution ----

IsUrlItem(i) == items[i].type = "url"
HasCache(i) == IsUrlItem(i) /\ items[i].cached # "none"

\* C17: when a URL item has cached content, the export uses that cached
\* content as the item's fragment and makes no network fetch for the item.
C17_CachedContentUsed ==
  \A i \in Processed :
    HasCache(i) =>
      /\ hist[i].fin = "cache"
      /\ hist[i].res = "emitted"
      /\ Cardinality(Positions(Emitted, i, {"url"})) = 1
      /\ FailedEntries(i) = {}

WikiEntries(i) ==
  Cardinality({ k \in 1..Len(wikipediaAttribution) : wikipediaAttribution[k] = i })
WebEntries(i) ==
  Cardinality({ k \in 1..Len(nonWikiAttribution) : nonWikiAttribution[k] = i })

IsWebItem(i) == items[i].type \in {"url", "wikipedia", "image"}

\* the content of item i came over the network in this export
FetchedNow(i) ==
  \/ items[i].type \in {"url", "wikipedia"} /\ hist[i].fin \in {"rest", "ok"}
  \/ items[i].type = "image" /\ ~items[i].local /\ hist[i].res = "emitted"

C18_WitnessFetched ==
  /\ Succeeded
  /\ Len(items) = 2
  /\ items[1].type = "wikipedia" /\ items[1].wiki /\ WikiEntries(1) = 1
  /\ items[2].type = "image" /\ WebEntries(2) = 1

\* ---- access requests ----

\* the step is an approve or decline call on request r
Reviewed(r) ==
  /\ reply'.n = reply.n + 1
  /\ reply'.op \in {"approve", "decline"}
  /\ reply'.id = r

\* C19: an access request's status changes at most once, from pending to
\* approved or to declined; an approve or decline on a request that is not
\* pending is rejected as already processed and leaves the request and the
\* user table unchanged; and a request is approved only if a user account with
\* its email as username was created.
C19_RequestLifecycle ==
  /\ [][\A r \in ReqIds :
          (access_requests[r].status # "none" /\ access_requests'[r] # access_requests[r])
            => /\ access_requests[r].status = "pending"
               /\ access_requests'[r].status \in {"approved", "declined"}
               /\ access_requests'[r].email = access_requests[r].email]_vars
  /\ [][\A r \in ReqIds :
          (Reviewed(r) /\ access_requests[r].status \in {"approved", "declined"})
            => /\ reply'.error = "Request already processed"
               /\ access_requests' = access_requests
               /\ users' = users]_vars
  /\ [](\A r \in ReqIds :
          access_requests[r].status = "approved"
            => /\ access_requests[r].email \in users
               /\ access_requests[r].email \in approvedUsers)

\* an approved request was approved again and refused
C19_Witness ==
  \E r \in ReqIds :
    /\ access_requests[r].status = "approved"
    /\ access_requests[r].email \in users
    /\ reply = [n |-> 3, op |-> "decline", id |-> r,
                error |-> "Request already processed"]

\* ---- batches of a PDF export ----

IsBatch(c) == c.type = "markdown"
IsNativePdf(c) == c.type = "pdf" /\ c.desc = "item"

\* where element e lies: <<k, p>> for position p of batch k, <<0, p>> for
\* position p of the accumulator (while it is still being filled)
Places(e) ==
  { <<k, p>> \in (1..Len(pdfSequence)) \X (1..(2 * Len(items) + 1)) :
      /\ IsBatch(pdfSequence[k])
      /\ p <= Len(pdfSequence[k].inputs)
      /\ pdfSequence[k].inputs[p] = e }
  \cup
  { <<0, p>> : p \in { q \in 1..Len(inputs) : ri = 0 /\ inputs[q] = e } }

\* item i generated a markdown fragment
GeneratedFragment(i) ==
  /\ hist[i].res \in {"emitted", "notext"}
  /\ ~(format = "pdf" /\ items[i].type = "pdf")

\* the step embeds the PDF of item idx in a PDF export
EmbedsPdf ==
  /\ format = "pdf" /\ pc = "loop"
  /\ idx \in 1..Len(items)
  /\ items[idx].type = "pdf"
  /\ idx' = idx + 1
  /\ hist'[idx].res = "emitted"

IsPrefix(a, b) == Len(a) <= Len(b) /\ SubSeq(b, 1, Len(a)) = a

\* C20: in a PDF export, each time a native PDF is embedded the markdown
\* accumulated so far is appended to the sequence as one batch, the PDF is
\* appended as an element of its own and the accumulator is emptied; every
\* generated fragment lies in exactly one batch (or still in the accumulator)
\* exactly once. In EPUB and markdown exports the sequence holds no element
\* and all fragments form the one stream that is written.
C20_Batching ==
  /\ [][EmbedsPdf =>
          LET n == Len(pdfSequence)
              m == Len(pdfSequence')
          IN /\ inputs' = <<>>
             /\ m \in {n + 1, n + 2}
             /\ SubSeq(pdfSequence', 1, n) = pdfSequence
             /\ IsNativePdf(pdfSequence'[m]) /\ pdfSequence'[m].item = idx
             /\ m = n + 1 => inputs = <<>>
             /\ m = n + 2 =>
                  /\ IsBatch(pdfSequence'[n + 1])
                  /\ pdfSequence'[n + 1].inputs # <<>>
                  /\ IsPrefix(inputs, pdfSequence'[n + 1].inputs)
                  /\ Len(pdfSequence'[n + 1].inputs) <= Len(inputs) + 1]_vars
  /\ [](format = "pdf" =>
          /\ \A i \in Processed :
               GeneratedFragment(i) =>
                 Cardinality(Places(El(FragmentKind(i), i))) = 1
          /\ \A k \in 1..Len(pdfSequence) :
               IsBatch(pdfSequence[k]) =>
                 /\ pdfSequence[k].inputs # <<>>
                 /\ \A p \in 1..Len(pdfSequence[k].inputs) :
                      Cardinality(Places(pdfSequence[k].inputs[p])) = 1)
  /\ [](format # "pdf" =>
          /\ pdfSequence = <<>> /\ finalPdfSequence = <<>>
          /\ \A i \in Processed :
               GeneratedFragment(i) =>
                 Cardinality(Positions(inputs, i, {FragmentKind(i)})) = 1
          /\ Written =>
               SubSeq(outFile.parts, Len(outFile.parts) - Len(inputs) + 1,
                      Len(outFile.parts)) = inputs)

C20_Witness ==
  /\ Succeeded /\ format = "pdf"
  /\ Len(pdfSequence) = 4
  /\ IsBatch(pdfSequence[1]) /\ Len(pdfSequence[1].inputs) = 2
  /\ IsNativePdf(pdfSequence[2])
  /\ IsBatch(pdfSequence[3]) /\ Len(pdfSequence[3].inputs) = 1
  /\ IsNativePdf(pdfSequence[4])

C20_WitnessOneStream ==
  /\ Succeeded /\ format = "epub"
  /\ Len(items) = 3 /\ items[2].type = "pdf" /\ hist[2].res = "emitted"
  /\ Len(outFile.parts) = 5

\* ---- table of contents ----

\* pandoc takes a table of contents from --toc and from toc: true in the metadata
CarriesToc(args) == args.toc \/ args.metadataFile.toc
BatchRenders == SelectSeq(renders, LAMBDA r : r.kind = "batch")

\* C21 (as stated): in a PDF export with the table of contents enabled, exactly
\* the first rendered markdown batch carries the table-of-contents directive and
\* no later batch's rendering invocation carries it.
C21_TocOnlyFirstBatch ==
  (format = "pdf" /\ includeToc) =>
    \A k \in 1..Len(BatchRenders) : CarriesToc(BatchRenders[k].args) <=> (k = 1)

\* C21 (part that holds): the --toc flag itself is passed to the first batch only,
\* and to none when the option is off.
C21_TocFlagOnlyFirstBatch ==
  format = "pdf" =>
    \A k \in 1..Len(BatchRenders) : BatchRenders[k].args.toc <=> (k = 1 /\ includeToc)

\* two batches were rendered in one export with the table of contents enabled
C21_WitnessTwoBatches ==
  format = "pdf" /\ includeToc /\ Len(BatchRenders) >= 2

\* ---- title page ----

TitleRenders == SelectSeq(renders, LAMBDA r : r.kind = "title")
\* the final sequence is handed to the merge step
AtMerge == format = "pdf" /\ pc = "merge"

\* C22 (as stated): in a PDF export whose items include a title page, the title
\* page is rendered exactly once, in its own invocation, and its component is the
\* first element of the final sequence handed to the merge step.
C22_TitlePageFirst ==
  (AtMerge /\ TitlePageItem # 0) =>
    /\ Len(TitleRenders) = 1
    /\ Len(finalPdfSequence) >= 1
    /\ IsTitleComp(finalPdfSequence[1])
    /\ \A k \in 2..Len(finalPdfSequence) : ~IsTitleComp(finalPdfSequence[k])

\* C22 (part that holds): the one title-page invocation is the first render of
\* the export, and its component leads the final sequence exactly when that
\* invocation succeeded; no other position ever holds a title-page component.
C22_TitlePageFirstIfRendered ==
  (AtMerge /\ TitlePageItem # 0) =>
    /\ Len(TitleRenders) = 1
    /\ renders[1].kind = "title"
    /\ renders[1].ok <=>
         (Len(finalPdfSequence) >= 1 /\ IsTitleComp(finalPdfSequence[1]))
    /\ \A k \in 2..Len(finalPdfSequence) : ~IsTitleComp(finalPdfSequence[k])

\* a title page was requested, its render failed and components are merged
C22_WitnessTitleLost ==
  /\ AtMerge /\ TitlePageItem # 0
  /\ ~renders[1].ok
  /\ Len(finalPdfSequence) >= 2

\* ---- merge step ----

MergeStep == pc = "merge" /\ pc' # "merge"
Merged == pc' = "finish" /\ outFile' = File(finalPdfSequence)
LacksTool == pc' = "done" /\ progress'.error = "no PDF merger tool found"

\* C23: a final component list with exactly one element is copied to the output
\* path without any merge tool being looked up; a list with more than one
\* element is merged, in list order, by the first installed tool among qpdf,
\* pdfunite and gs; the job fails for lack of a merge tool exactly when the list
\* has more than one element and none of the three is installed.
C23_MergeRules ==
  [][MergeStep =>
       /\ Len(finalPdfSequence) = 1 =>
            Merged /\ merger' = NotLooked /\ installed' = {}
       /\ (Len(finalPdfSequence) > 1 /\ pc' = "finish") =>
            /\ Merged
            /\ \E k \in 1..Len(MergerTools) :
                 /\ merger' = MergerTools[k]
                 /\ MergerTools[k] \in installed'
                 /\ \A j \in 1..(k - 1) : MergerTools[j] \notin installed'
       /\ LacksTool <=> (Len(finalPdfSequence) > 1 /\ installed' = {})]_vars

\* three components were merged by pdfunite on a host without qpdf
C23_Witness ==
  /\ pc = "finish" /\ format = "pdf"
  /\ Len(finalPdfSequence) = 3 /\ outFile = File(finalPdfSequence)
  /\ merger = "pdfunite" /\ installed = {"pdfunite", "gs"}

\* one component was copied, no tool looked up
C23_WitnessCopied ==
  /\ pc = "finish" /\ format = "pdf"
  /\ Len(finalPdfSequence) = 1 /\ outFile = File(finalPdfSequence)
  /\ merger = NotLooked

\* several components and no tool: the job failed
C23_WitnessNoTool ==
  /\ pc = "done" /\ Len(finalPdfSequence) > 1 /\ installed = {}
  /\ progress.error = "no PDF merger tool found"

\* ---- headings and page breaks in the output ----

\* C24 (as stated): in the assembled output the element right after a heading
\* fragment is never a page break, also when items between the heading and the
\* next emitted content failed or were skipped.
C24_NoBreakAfterHeading ==
  Written =>
    \A k \in 1..(Len(OutStream) - 1) :
      OutStream[k].kind = "heading" => OutStream[k + 1].kind # "pagebreak"

\* C24 (part that holds): a heading whose next item made it into the output is
\* followed directly by that item's fragment.
C24_NoBreakBeforeDirectSuccessor ==
  Written =>
    \A k \in 1..(Len(OutStream) - 1) :
      LET i == OutStream[k].item
      IN (/\ OutStream[k].kind = "heading"
          /\ i < Len(hist)
          /\ items[i + 1].type # "titlepage"
          /\ NotFailed(i + 1))
           => (OutStream[k + 1].item = i + 1 /\ OutStream[k + 1].kind # "pagebreak")

\* a heading, a failed item, then content: the output holds the heading, a page
\* break and the content
C24_WitnessFailedBetween ==
  /\ Written /\ Succeeded /\ Len(items) = 3
  /\ items[1].type = "heading" /\ ~NotFailed(2) /\ NotFailed(3)
  /\ items[3].type = "url"

\* ---- progress reports ----

\* the step the k-th report of the job carries: Math.min(++step, totalSteps)
ReportedStep(k) == Min(k, TotalSteps)
NewReports == Len(reports') - Len(reports)

C26_ScrubOnlyForPdf == format # "pdf" => scrubbed = <<>>

\* C26 (what the code does): in every format the fragments of the emitted docx,
\* url and wikipedia items and the attribution page go through the resolver, in
\* order, and no other fragment does.
C26_ScrubDocxUrlAttribution ==
  /\ \A i \in Processed :
       (\E k \in 1..Len(scrubbed) : scrubbed[k] = i) <=>
         (items[i].type \in {"docx", "url", "wikipedia"} /\ hist[i].res = "emitted")
  /\ (\E k \in 1..Len(scrubbed) : scrubbed[k] = 0) <=>
       (\E k \in 1..Len(Emitted) : Emitted[k].kind = "attribution")

\* a markdown export whose url fragment went through the resolver
C26_WitnessMarkdown ==
  /\ format = "markdown" /\ Written
  /\ \E k \in 1..Len(scrubbed) : scrubbed[k] > 0 /\ items[scrubbed[k]].type = "url"

\* ---- output file of a finished job ----

\* C27 (as stated): whenever a job ends with done = true and no error, a file
\* has been written at the reported output path, for every format and every
\* item list, the empty one and the ones whose items all failed included.
C27_OutputWritten ==
  Succeeded => (progress.output = "outPath" /\ Written)

\* C27 (part that holds): a job that ends without error has written its file
\* unless it is a PDF export whose final component list is empty.
C27_OutputWrittenUnlessNoComponent ==
  Succeeded =>
    /\ progress.output = "outPath"
    /\ Written <=> ~(format = "pdf" /\ finalPdfSequence = <<>>)

\* a PDF export of a project without items ended without error
C27_WitnessEmptyPdf ==
  Succeeded /\ format = "pdf" /\ items = <<>> /\ ~Written

\* ---- paths of concurrent exports ----

Concurrent(i, j) ==
  i # j /\ running[i].pc = "running" /\ running[j].pc = "running"
SameTarget(i, j) ==
  /\ running[i].outPath.name = running[j].outPath.name
  /\ running[i].format = running[j].format

\* C28 (as stated): two exports that run concurrently, for the same project or
\* for projects with the same sanitized name and the same format, never use the
\* same output path, merged-file path or temporary working directory.
C28_DistinctPaths ==
  \A i \in ExportIds, j \in ExportIds :
    (Concurrent(i, j) /\ SameTarget(i, j)) =>
      /\ running[i].outPath # running[j].outPath
      /\ MergedPath(running[i].outPath) # MergedPath(running[j].outPath)
      /\ running[i].workdir # running[j].workdir

\* C28 (part that holds): concurrent exports never share a working directory,
\* and they share the output path and the merged-file path exactly when they
\* have the same sanitized name and format and started in the same millisecond.
C28_DistinctUnlessSameMillisecond ==
  \A i \in ExportIds, j \in ExportIds :
    Concurrent(i, j) =>
      /\ running[i].workdir # running[j].workdir
      /\ running[i].workdir \in tmpDirs
      /\ running[i].outPath = running[j].outPath <=>
           (SameTarget(i, j) /\ running[i].outPath.time = running[j].outPath.time)

\* two PDF exports of the same project run at once with one output path
C28_WitnessSamePath ==
  /\ Concurrent(1, 2)
  /\ running[1].format = "pdf"
  /\ running[1].workdir.project = running[2].workdir.project
  /\ running[1].outPath = running[2].outPath

\* ---- page breaks in the assembled stream ----

\* what a page break can follow: a content fragment (the rule closes the title
\* block of a markdown export) or a native PDF
BreakPredecessors == ContentKinds \cup {"rule", "attribution"}
OnlyBreaks(c) ==
  /\ c.type = "markdown"
  /\ \A k \in 1..Len(c.inputs) : c.inputs[k].kind = "pagebreak"

\* C29 (as stated): in the assembled element stream every page break is
\* immediately preceded by an emitted content fragment or native artifact (the
\* stream never starts with a page break and never holds two in a row), also
\* when items failed or were skipped, and no markdown batch consists of page
\* breaks only.
C29_BreaksFollowContent ==
  Written =>
    /\ \A k \in 1..Len(OutStream) :
         OutStream[k].kind = "pagebreak" =>
           (k > 1 /\ OutStream[k - 1].kind \in BreakPredecessors)
    /\ format = "pdf" =>
         \A c \in 1..Len(outFile.parts) : ~OnlyBreaks(outFile.parts[c])

\* C29 (part that holds): when no item failed or was skipped, in a markdown
\* export and in an EPUB export without title page every page break follows a
\* content fragment.
C29_BreaksFollowContentIfAllEmitted ==
  (/\ Written /\ \A i \in Processed : NotFailed(i)
   /\ format = "markdown" \/ (format = "epub" /\ TitlePageItem = 0)) =>
    \A k \in 1..Len(OutStream) :
      OutStream[k].kind = "pagebreak" =>
        (k > 1 /\ OutStream[k - 1].kind \in BreakPredecessors)

\* two native PDFs in a row, no failure: the batch between them holds one page
\* break and nothing else
C29_WitnessBreakOnlyBatch ==
  /\ Written /\ Succeeded /\ format = "pdf"
  /\ \A i \in Processed : NotFailed(i)
  /\ \E c \in 2..(Len(outFile.parts) - 1) :
       /\ OnlyBreaks(outFile.parts[c])
       /\ outFile.parts[c - 1].type = "pdf"
       /\ outFile.parts[c + 1].type = "pdf"

\* the first item was skipped: the output starts with a page break
C29_WitnessLeadingBreak ==
  /\ Written /\ Succeeded /\ format = "markdown" /\ TitlePageItem = 0
  /\ Len(OutStream) >= 2 /\ OutStream[1].kind = "pagebreak"

\* ---- range of step and total ----

\* C30: in every progress state of a job, from submission to the terminal
\* state, 0 <= step <= total and total >= 1, whatever the number of items, the
\* format and the number of reports issued.
C30_StepWithinTotal ==
  /\ 0 <= progress.step
  /\ progress.step <= progress.total
  /\ progress.total >= 1
  /\ \A k \in 1..Len(reports) : 1 <= ReportedStep(k) /\ ReportedStep(k) <= TotalSteps

\* the pipeline has issued more reports than total and the job is still running
C30_Witness ==
  /\ ~progress.done
  /\ step > progress.total
  /\ progress.step = progress.total
  /\ progress.total = FixedSteps + Len(items) + (IF format = "pdf" THEN 1 ELSE 0)

\* the terminal state of a job: step 1 of 1
C30_WitnessTerminal ==
  progress.done /\ progress.step = 1 /\ progress.total = 1 /\ step > 1
====
